---------------------------- MODULE Spec2Model ----------------------------
(***************************************************************************)
(* A model of the x-mcp server: the 14 read-only X API tools of x.py, the  *)
(* smoke_ping tool of smoke.py and the entry point of server.py.           *)
(*                                                                         *)
(* A tool invocation is a coroutine.  It runs from its call to its single  *)
(* `await ctx.dispatch("x", request)` in one step (the tool's action), is  *)
(* suspended while the external dispatch layer holds the request, and runs *)
(* from the response to its return in a second step (resume).  Several     *)
(* invocations may be suspended at the same time.                          *)
(*                                                                         *)
(* Strings are TLC strings; an optional value (Python's None or a value)   *)
(* is the empty tuple or a one-element tuple.                              *)
(***************************************************************************)
EXTENDS Integers, Sequences, FiniteSets, TLC

VARIABLES
    mainpc,      \* server.py main(): "start", "collected", "serving"
    registered,  \* the tools collected on the server, in order
    port,        \* the port served (None before server.serve)
    available,   \* whether the enclave dispatch is available (smoke.py docstring)
    pc,          \* per invocation: "idle", "await", "done", "raised"
    tool,        \* per invocation: the name of the tool invoked
    args,        \* per invocation: the arguments of the call
    sent,        \* per invocation: the request handed to ctx.dispatch (or None)
    got,         \* per invocation: the dispatch response received (or None)
    result,      \* per invocation: the value returned (or None)
    ndispatch    \* per invocation: the number of ctx.dispatch calls made

vars == <<mainpc, registered, port, available, pc, tool, args, sent, got, result, ndispatch>>

-----------------------------------------------------------------------------
(* Bounds of the model.                                                    *)

\* Invocations that may be in progress at the same time.
NumCalls == 2
\* max_results arguments range over -NegProbe .. MaxProbe.
NegProbe == 2
MaxProbe == 1002
\* Identifier lists have 0 .. MaxIds elements.
MaxIds == 102

-----------------------------------------------------------------------------
(* Python values.                                                          *)

None == <<>>
Some(v) == <<v>>
Val(o) == o[1]

\* A parameter with a default: the default stands in for an omitted argument.
Default(o, d) == IF o = None THEN d ELSE Val(o)

minDropsCap(a, b) == b
min(a, b) == IF a < b THEN a ELSE b

max(a, b) == IF a > b THEN a ELSE b

Ch(s, i) == SubSeq(s, i, i)

\* str(int): the decimal numeral, "-" first for a negative number.
Digit(d) == Ch("0123456789", d + 1)

RECURSIVE strNat(_)
strNat(n) == IF n < 10 THEN Digit(n) ELSE strNat(n \div 10) \o Digit(n % 10)

str(n) == IF n < 0 THEN "-" \o strNat(-n) ELSE strNat(n)

\* sep.join(parts): the parts in order with sep between neighbours.  The
\* concatenation is evaluated by halves, which keeps the recursion shallow.
RECURSIVE joinRange(_, _, _, _)
joinRange(sep, parts, lo, hi) ==
    IF lo > hi THEN ""
    ELSE IF lo = hi THEN parts[lo]
    ELSE LET mid == (lo + hi) \div 2
         IN  joinRange(sep, parts, lo, mid) \o sep \o joinRange(sep, parts, mid + 1, hi)

join(sep, parts) == joinRange(sep, parts, 1, Len(parts))

-----------------------------------------------------------------------------
(* urllib.parse.urlencode, which quotes keys and values with quote_plus.   *)

\* ord() of the printable ASCII characters: each segment is the code of its
\* first character and the characters that follow it in code order.  The
\* double quote (34), the backslash (92) and the backtick (96) are left out.
AsciiSegments ==
    << <<32, " !">>,
       <<35, "#$%&'()*+,-./0123456789:;<=>?@ABCDEFGHIJKLMNOPQRSTUVWXYZ[">>,
       <<93, "]^_">>,
       <<97, "abcdefghijklmnopqrstuvwxyz{|}~">> >>

Chars ==
    UNION {{Ch(AsciiSegments[k][2], i) : i \in 1..Len(AsciiSegments[k][2])} :
               k \in 1..Len(AsciiSegments)}

ord ==
    [c \in Chars |->
        LET g == CHOOSE g \in {AsciiSegments[k] : k \in 1..Len(AsciiSegments)} :
                     \E i \in 1..Len(g[2]) : Ch(g[2], i) = c
        IN  g[1] - 1 + (CHOOSE i \in 1..Len(g[2]) : Ch(g[2], i) = c)]

\* Characters quote_plus never quotes: letters, digits and "_.-~".
AlwaysSafe ==
    {c \in DOMAIN ord : \/ ord[c] \in 48..57
                        \/ ord[c] \in 65..90
                        \/ ord[c] \in 97..122
                        \/ c \in {"_", ".", "-", "~"}}

HexDigit(d) == Ch("0123456789ABCDEF", d + 1)

quote_char(c) ==
    IF c \in AlwaysSafe THEN c
    ELSE IF c = " " THEN "+"
    ELSE "%" \o HexDigit(ord[c] \div 16) \o HexDigit(ord[c] % 16)

\* Character by character, in order (by halves, as in join).
RECURSIVE quoteRange(_, _, _)
quoteRange(s, lo, hi) ==
    IF lo > hi THEN ""
    ELSE IF lo = hi THEN quote_char(Ch(s, lo))
    ELSE LET mid == (lo + hi) \div 2
         IN  quoteRange(s, lo, mid) \o quoteRange(s, mid + 1, hi)

quote_plus(s) == quoteRange(s, 1, Len(s))

\* params is a sequence of <<key, optional value>> pairs in the dict's order;
\* the comprehension of x.py:78 drops the pairs whose value is None.
RECURSIVE notNone(_)
notNone(params) ==
    IF params = <<>> THEN <<>>
    ELSE IF Head(params)[2] = None THEN notNone(Tail(params))
    ELSE <<Head(params)>> \o notNone(Tail(params))

RECURSIVE urlencodeFrom(_, _)
urlencodeFrom(pairs, i) ==
    IF i > Len(pairs) THEN ""
    ELSE quote_plus(pairs[i][1]) \o "=" \o quote_plus(Val(pairs[i][2]))
         \o (IF i < Len(pairs) THEN "&" ELSE "")
         \o urlencodeFrom(pairs, i + 1)

urlencode(pairs) == urlencodeFrom(pairs, 1)

-----------------------------------------------------------------------------
(* x.py: the connection, the result model and the _request helper.         *)

x_api ==
    [name |-> "x", token |-> "X_BEARER_TOKEN", base_url |-> "https://api.x.com/2",
     auth_header_format |-> "Bearer {api_key}"]

XResult(success, data, error) == [success |-> success, data |-> data, error |-> error]

HttpRequestReused(method, path) ==
    IF \E j \in DOMAIN sent : sent[j] # None
    THEN Val(sent[CHOOSE j \in DOMAIN sent : sent[j] # None]).request
    ELSE [method |-> method, path |-> path]
HttpRequest(method, path) == [method |-> method, path |-> path]

\* x.py:76-80: the path with its query string.
RequestPath(path, params) ==
    IF params # <<>>
    THEN LET query_string == urlencode(notNone(params))
         IN  IF query_string # "" THEN path \o "?" \o query_string ELSE path
    ELSE path

\* _request up to its await: the request built and the connection it is
\* dispatched to.
_request(method, path, params) ==
    [kind |-> "dispatch", conn |-> "x",
     request |-> HttpRequest(method, RequestPath(path, params))]

\* _request from the response to its return.
RequestReturnGeneric(response) ==
    IF response.success
    THEN XResult(TRUE, Val(response.response).body, None)
    ELSE XResult(FALSE, None, Some("Request failed"))
RequestReturnNoDefault(response) ==
    IF response.success
    THEN XResult(TRUE, Val(response.response).body, None)
    ELSE XResult(FALSE, None,
                 IF response.error # None THEN Some(Val(response.error).message) ELSE None)
RequestReturn(response) ==
    IF response.success
    THEN XResult(TRUE, Val(response.response).body, None)
    ELSE LET msg == IF response.error # None
                    THEN Val(response.error).message
                    ELSE "Request failed"
         IN  XResult(FALSE, None, Some(msg))

\* A tool's return before any dispatch.
Return(r) == [kind |-> "return", result |-> r]

\* A query parameter given a value.
P(k, v) == <<k, Some(v)>>

-----------------------------------------------------------------------------
(* x.py: the 14 tools, each up to its await or its early return.           *)

x_get_user(user_id) ==
    _request("GET", "/users/" \o user_id,
             <<P("user.fields", "description,public_metrics,created_at")>>)

x_get_user_by_username(username) ==
    _request("GET", "/users/by/username/" \o username,
             <<P("user.fields", "description,public_metrics,created_at")>>)

TooManyUserIdsOffByOne(user_ids) == Len(user_ids) >= 100
TooManyUserIdsLoose(user_ids) == Len(user_ids) > 1000
TooManyUserIds(user_ids) == Len(user_ids) > 100

x_get_users(user_ids) ==
    IF TooManyUserIds(user_ids)
    THEN Return(XResult(FALSE, None, Some("Maximum 100 user IDs allowed")))
    ELSE _request("GET", "/users",
                  <<P("ids", join(",", user_ids)),
                    P("user.fields", "description,public_metrics,created_at")>>)

x_get_tweet(tweet_id) ==
    _request("GET", "/tweets/" \o tweet_id,
             <<P("tweet.fields", "author_id,created_at,public_metrics,entities"),
               P("expansions", "author_id"),
               P("user.fields", "username,name")>>)

TooManyTweetIdsLoose(tweet_ids) == Len(tweet_ids) > 1000
TooManyTweetIds(tweet_ids) == Len(tweet_ids) > 100

x_get_tweets(tweet_ids) ==
    IF TooManyTweetIds(tweet_ids)
    THEN Return(XResult(FALSE, None, Some("Maximum 100 tweet IDs allowed")))
    ELSE _request("GET", "/tweets",
                  <<P("ids", join(",", tweet_ids)),
                    P("tweet.fields", "author_id,created_at,public_metrics,entities"),
                    P("expansions", "author_id"),
                    P("user.fields", "username,name")>>)

x_get_user_tweets(user_id, max_results) ==
    LET clamped == max(10, min(100, Default(max_results, 10)))
    IN  _request("GET", "/users/" \o user_id \o "/tweets",
                 <<P("max_results", str(clamped)),
                   P("tweet.fields", "created_at,public_metrics,entities")>>)

x_get_user_mentions(user_id, max_results) ==
    LET clamped == max(10, min(100, Default(max_results, 10)))
    IN  _request("GET", "/users/" \o user_id \o "/mentions",
                 <<P("max_results", str(clamped)),
                   P("tweet.fields", "author_id,created_at,public_metrics"),
                   P("expansions", "author_id"),
                   P("user.fields", "username,name")>>)

x_search_recent(query, max_results) ==
    LET clamped == max(10, min(100, Default(max_results, 10)))
    IN  _request("GET", "/tweets/search/recent",
                 <<P("query", query),
                   P("max_results", str(clamped)),
                   P("tweet.fields", "author_id,created_at,public_metrics,entities"),
                   P("expansions", "author_id"),
                   P("user.fields", "username,name")>>)

x_count_recent(query) ==
    _request("GET", "/tweets/counts/recent", <<P("query", query)>>)

x_get_followers(user_id, max_results) ==
    LET clamped == max(1, min(1000, Default(max_results, 100)))
    IN  _request("GET", "/users/" \o user_id \o "/followers",
                 <<P("max_results", str(clamped)),
                   P("user.fields", "description,public_metrics,created_at")>>)

x_get_following(user_id, max_results) ==
    LET clamped == max(1, min(1000, Default(max_results, 100)))
    IN  _request("GET", "/users/" \o user_id \o "/following",
                 <<P("max_results", str(clamped)),
                   P("user.fields", "description,public_metrics,created_at")>>)

x_get_list_Delete(list_id) ==
    _request("DELETE", "/lists/" \o list_id, <<>>)
x_get_list(list_id) ==
    _request("GET", "/lists/" \o list_id,
             <<P("list.fields",
                 "description,follower_count,member_count,owner_id,created_at")>>)

x_get_list_tweets(list_id, max_results) ==
    LET clamped == max(1, min(100, Default(max_results, 10)))
    IN  _request("GET", "/lists/" \o list_id \o "/tweets",
                 <<P("max_results", str(clamped)),
                   P("tweet.fields", "author_id,created_at,public_metrics"),
                   P("expansions", "author_id"),
                   P("user.fields", "username,name")>>)

x_get_user_lists(user_id, max_results) ==
    LET clamped == max(1, min(100, Default(max_results, 100)))
    IN  _request("GET", "/users/" \o user_id \o "/owned_lists",
                 <<P("max_results", str(clamped)),
                   P("list.fields", "description,follower_count,member_count,created_at")>>)

x_tools_without_lists ==
    <<"x_get_user", "x_get_user_by_username", "x_get_users",
      "x_get_tweet", "x_get_tweets", "x_get_user_tweets", "x_get_user_mentions",
      "x_search_recent", "x_count_recent",
      "x_get_followers", "x_get_following",
      "x_get_list", "x_get_list_tweets">>
x_tools ==
    <<"x_get_user", "x_get_user_by_username", "x_get_users",
      "x_get_tweet", "x_get_tweets", "x_get_user_tweets", "x_get_user_mentions",
      "x_search_recent", "x_count_recent",
      "x_get_followers", "x_get_following",
      "x_get_list", "x_get_list_tweets", "x_get_user_lists">>

-----------------------------------------------------------------------------
(* smoke.py                                                                *)

SmokePingResponse(ok, message) == [ok |-> ok, message |-> message]

smoke_ping_fixed(message) == Return(SmokePingResponse(TRUE, "pong"))
smoke_ping(message) == Return(SmokePingResponse(TRUE, Default(message, "pong")))

smoke_tools == <<"smoke_ping">>

-----------------------------------------------------------------------------
(* The dispatch layer's answers, as _request reads them: success,          *)
(* response.body, and error (None or an object with a message).            *)

OkResponse(body) ==
    [success |-> TRUE, response |-> Some([body |-> body]), error |-> None]

FailResponse(error) ==
    [success |-> FALSE, response |-> None, error |-> error]

Bodies(wide) ==
    IF wide THEN {None, Some("{data:[]}")} ELSE {Some("{data:[]}")}

Errors(wide) ==
    IF wide
    THEN {None, Some([message |-> "Unauthorized"]), Some([message |-> ""])}
    ELSE {Some([message |-> "Unauthorized"])}

Responses(wide) ==
    {OkResponse(b) : b \in Bodies(wide)} \cup {FailResponse(e) : e \in Errors(wide)}

-----------------------------------------------------------------------------
(* The arguments tools are called with.                                    *)

Calls == 1..NumCalls

IdPool == <<"1", "42", "7 8", "a&b=c">>

\* n identifiers, taken from IdPool in turn starting after its off-th.
IdList(n, off) == [k \in 1..n |-> IdPool[((k + off) % Len(IdPool)) + 1]]

IdLists(wide) ==
    IF wide
    THEN {IdList(n, off) : n \in 0..MaxIds, off \in 0..1}
    ELSE {IdList(2, 0), IdList(MaxIds, 1)}

MaxResults(wide) ==
    IF wide
    THEN {None} \cup {Some(v) : v \in (0 - NegProbe)..MaxProbe}
    ELSE {Some(500)}

Inputs(t, wide) ==
    CASE t = "smoke_ping" ->
            {[message |-> m] : m \in IF wide THEN {None, Some("hi"), Some("")} ELSE {None, Some("hi")}}
      [] t = "x_get_user" ->
            {[user_id |-> u] : u \in IF wide THEN {"12", "2244994945"} ELSE {"12"}}
      [] t = "x_get_user_by_username" ->
            {[username |-> u] : u \in IF wide THEN {"nasa", "x_dev"} ELSE {"nasa"}}
      [] t = "x_get_users" -> {[user_ids |-> l] : l \in IdLists(wide)}
      [] t = "x_get_tweet" ->
            {[tweet_id |-> u] : u \in IF wide THEN {"20", "1460323737035677698"} ELSE {"20"}}
      [] t = "x_get_tweets" -> {[tweet_ids |-> l] : l \in IdLists(wide)}
      [] t \in {"x_get_user_tweets", "x_get_user_mentions", "x_get_followers",
                "x_get_following", "x_get_user_lists"} ->
            {[user_id |-> "12", max_results |-> m] : m \in MaxResults(wide)}
      [] t = "x_search_recent" ->
            {[query |-> "from:nasa has:links", max_results |-> m] : m \in MaxResults(wide)}
      [] t = "x_count_recent" ->
            {[query |-> q] : q \in IF wide THEN {"from:nasa has:links", "#tla+"} ELSE {"#tla+"}}
      [] t = "x_get_list" ->
            {[list_id |-> u] : u \in IF wide THEN {"84839422", "7"} ELSE {"7"}}
      [] t = "x_get_list_tweets" ->
            {[list_id |-> "84839422", max_results |-> m] : m \in MaxResults(wide)}

-----------------------------------------------------------------------------
(* server.py                                                               *)

ServePort == 8080

Range(f) == {f[k] : k \in DOMAIN f}

Init ==
    /\ mainpc = "start"
    /\ registered = <<>>
    /\ port = None
    /\ available = TRUE
    /\ pc = [i \in Calls |-> "idle"]
    /\ tool = [i \in Calls |-> ""]
    /\ args = [i \in Calls |-> None]
    /\ sent = [i \in Calls |-> None]
    /\ got = [i \in Calls |-> None]
    /\ result = [i \in Calls |-> None]
    /\ ndispatch = [i \in Calls |-> 0]

callvars == <<pc, tool, args, sent, got, result, ndispatch>>

\* main(), line 22: server.collect(*smoke_tools, *x_tools)
main_collect ==
    /\ mainpc = "start"
    /\ registered' = registered \o smoke_tools \o x_tools
    /\ mainpc' = "collected"
    /\ UNCHANGED <<port, available, callvars>>

\* main(), line 23: await server.serve(port=8080), which does not return.
main_serve ==
    /\ mainpc = "collected"
    /\ port' = Some(ServePort)
    /\ mainpc' = "serving"
    /\ UNCHANGED <<registered, available, callvars>>

\* The environment: the enclave dispatch becomes available or unavailable.
ToggleDispatch ==
    /\ available' = ~available
    /\ UNCHANGED <<mainpc, registered, port, callvars>>

-----------------------------------------------------------------------------
(* A tool invocation.                                                      *)

\* The serving server calls registered tool t with arguments a in the free
\* slot i, and the coroutine runs to its await of ctx.dispatch or to its
\* return: out.
Begin(i, t, a, out) ==
    /\ mainpc = "serving"
    /\ t \in Range(registered)
    /\ tool' = [tool EXCEPT ![i] = t]
    /\ args' = [args EXCEPT ![i] = Some(a)]
    /\ IF out.kind = "dispatch"
       THEN /\ pc' = [pc EXCEPT ![i] = "await"]
            /\ sent' = [sent EXCEPT ![i] =
                           Some([conn |-> out.conn, request |-> out.request])]
            /\ ndispatch' = [ndispatch EXCEPT ![i] = @ + 1]
            /\ UNCHANGED result
       ELSE /\ pc' = [pc EXCEPT ![i] = "done"]
            /\ result' = [result EXCEPT ![i] = Some(out.result)]
            /\ UNCHANGED <<sent, ndispatch>>
    /\ UNCHANGED <<mainpc, registered, port, available, got>>

Invoke_smoke_ping(i, a) ==
    /\ pc[i] = "idle"
    /\ Begin(i, "smoke_ping", a, smoke_ping(a.message))

Invoke_x_get_user(i, a) ==
    /\ pc[i] = "idle"
    /\ Begin(i, "x_get_user", a, x_get_user(a.user_id))

Invoke_x_get_user_by_username(i, a) ==
    /\ pc[i] = "idle"
    /\ Begin(i, "x_get_user_by_username", a, x_get_user_by_username(a.username))

Invoke_x_get_users(i, a) ==
    /\ pc[i] = "idle"
    /\ Begin(i, "x_get_users", a, x_get_users(a.user_ids))

Invoke_x_get_tweet(i, a) ==
    /\ pc[i] = "idle"
    /\ Begin(i, "x_get_tweet", a, x_get_tweet(a.tweet_id))

Invoke_x_get_tweets(i, a) ==
    /\ pc[i] = "idle"
    /\ Begin(i, "x_get_tweets", a, x_get_tweets(a.tweet_ids))

Invoke_x_get_user_tweets(i, a) ==
    /\ pc[i] = "idle"
    /\ Begin(i, "x_get_user_tweets", a, x_get_user_tweets(a.user_id, a.max_results))

Invoke_x_get_user_mentions(i, a) ==
    /\ pc[i] = "idle"
    /\ Begin(i, "x_get_user_mentions", a, x_get_user_mentions(a.user_id, a.max_results))

Invoke_x_search_recent(i, a) ==
    /\ pc[i] = "idle"
    /\ Begin(i, "x_search_recent", a, x_search_recent(a.query, a.max_results))

Invoke_x_count_recent(i, a) ==
    /\ pc[i] = "idle"
    /\ Begin(i, "x_count_recent", a, x_count_recent(a.query))

Invoke_x_get_followers(i, a) ==
    /\ pc[i] = "idle"
    /\ Begin(i, "x_get_followers", a, x_get_followers(a.user_id, a.max_results))

Invoke_x_get_following(i, a) ==
    /\ pc[i] = "idle"
    /\ Begin(i, "x_get_following", a, x_get_following(a.user_id, a.max_results))

Invoke_x_get_list(i, a) ==
    /\ pc[i] = "idle"
    /\ Begin(i, "x_get_list", a, x_get_list(a.list_id))

Invoke_x_get_list_tweets(i, a) ==
    /\ pc[i] = "idle"
    /\ Begin(i, "x_get_list_tweets", a, x_get_list_tweets(a.list_id, a.max_results))

Invoke_x_get_user_lists(i, a) ==
    /\ pc[i] = "idle"
    /\ Begin(i, "x_get_user_lists", a, x_get_user_lists(a.user_id, a.max_results))

\* The awaited dispatch answers: _request builds its result and the tool
\* returns it.  An unavailable dispatch never answers with a success.
Resume(i, r) ==
    /\ pc[i] = "await"
    /\ available \/ ~r.success
    /\ got' = [got EXCEPT ![i] = Some(r)]
    /\ result' = [result EXCEPT ![i] = Some(RequestReturn(r))]
    /\ pc' = [pc EXCEPT ![i] = "done"]
    /\ UNCHANGED <<mainpc, registered, port, available, tool, args, sent, ndispatch>>

\* The awaited dispatch raises instead: nothing in x.py catches it, and the
\* invocation ends without a result.
Raise(i) ==
    /\ pc[i] = "await"
    /\ ~available
    /\ pc' = [pc EXCEPT ![i] = "raised"]
    /\ UNCHANGED <<mainpc, registered, port, available, tool, args, sent, got, result, ndispatch>>

\* The caller has taken the outcome; nothing of the invocation remains.
Collect(i) ==
    /\ pc[i] \in {"done", "raised"}
    /\ pc' = [pc EXCEPT ![i] = "idle"]
    /\ tool' = [tool EXCEPT ![i] = ""]
    /\ args' = [args EXCEPT ![i] = None]
    /\ sent' = [sent EXCEPT ![i] = None]
    /\ got' = [got EXCEPT ![i] = None]
    /\ result' = [result EXCEPT ![i] = None]
    /\ ndispatch' = [ndispatch EXCEPT ![i] = 0]
    /\ UNCHANGED <<mainpc, registered, port, available>>

\* The calls that may start in slot i: none while it is taken or before the
\* server serves.
Offered(i, t, wide) ==
    IF pc[i] = "idle" /\ mainpc = "serving" THEN Inputs(t, wide) ELSE {}

Step(S, wide) ==
    \/ main_collect
    \/ main_serve
    \/ ToggleDispatch
    \/ \E i \in S :
        \/ \E a \in Offered(i, "smoke_ping", wide) : Invoke_smoke_ping(i, a)
        \/ \E a \in Offered(i, "x_get_user", wide) : Invoke_x_get_user(i, a)
        \/ \E a \in Offered(i, "x_get_user_by_username", wide) : Invoke_x_get_user_by_username(i, a)
        \/ \E a \in Offered(i, "x_get_users", wide) : Invoke_x_get_users(i, a)
        \/ \E a \in Offered(i, "x_get_tweet", wide) : Invoke_x_get_tweet(i, a)
        \/ \E a \in Offered(i, "x_get_tweets", wide) : Invoke_x_get_tweets(i, a)
        \/ \E a \in Offered(i, "x_get_user_tweets", wide) : Invoke_x_get_user_tweets(i, a)
        \/ \E a \in Offered(i, "x_get_user_mentions", wide) : Invoke_x_get_user_mentions(i, a)
        \/ \E a \in Offered(i, "x_search_recent", wide) : Invoke_x_search_recent(i, a)
        \/ \E a \in Offered(i, "x_count_recent", wide) : Invoke_x_count_recent(i, a)
        \/ \E a \in Offered(i, "x_get_followers", wide) : Invoke_x_get_followers(i, a)
        \/ \E a \in Offered(i, "x_get_following", wide) : Invoke_x_get_following(i, a)
        \/ \E a \in Offered(i, "x_get_list", wide) : Invoke_x_get_list(i, a)
        \/ \E a \in Offered(i, "x_get_list_tweets", wide) : Invoke_x_get_list_tweets(i, a)
        \/ \E a \in Offered(i, "x_get_user_lists", wide) : Invoke_x_get_user_lists(i, a)
        \/ \E r \in Responses(wide) : Resume(i, r)
        \/ Raise(i)
        \/ Collect(i)

\* Concurrent invocations, each tool with one or two argument values.
Next == Step(Calls, FALSE)

Spec == Init /\ [][Next]_vars

\* One invocation at a time, with the arguments ranging over the bounds.
NextWide == Step({1}, TRUE)

SpecWide == Init /\ [][NextWide]_vars

-----------------------------------------------------------------------------
(* What the receiver of a request reads from its path: the query string    *)
(* after "?", its "&"-separated key=value pairs, each unquoted ("+" is a   *)
(* space, %XX the character of code XX).                                   *)

\* The positions of character c in s.
Positions(s, c) == {k \in 1..Len(s) : Ch(s, k) = c}

MinOf(S) == CHOOSE m \in S : \A n \in S : m <= n

QueryOf(path) ==
    LET q == Positions(path, "?")
    IN  IF q = {} THEN "" ELSE SubSeq(path, MinOf(q) + 1, Len(path))

HexVal(c) == (CHOOSE d \in 0..15 : HexDigit(d) = c)

chr(code) == CHOOSE c \in Chars : ord[c] = code

\* k starts a token of s (a plain character or a %XX escape).
TokenStart(s, k) ==
    /\ (k > 1 => Ch(s, k - 1) # "%")
    /\ (k > 2 => Ch(s, k - 2) # "%")

RECURSIVE unquoteRange(_, _, _)
unquoteRange(s, lo, hi) ==
    IF lo > hi THEN ""
    ELSE LET mid == (lo + hi) \div 2
             cuts == {k \in (mid - 2)..(mid + 2) : k > lo /\ k <= hi /\ TokenStart(s, k)}
         IN  IF cuts # {}
             THEN unquoteRange(s, lo, MinOf(cuts) - 1) \o unquoteRange(s, MinOf(cuts), hi)
             ELSE IF Ch(s, lo) = "%" THEN chr(16 * HexVal(Ch(s, lo + 1)) + HexVal(Ch(s, lo + 2)))
             ELSE IF Ch(s, lo) = "+" THEN " "
             ELSE Ch(s, lo)

unquote_plus(s) == unquoteRange(s, 1, Len(s))

\* The value of query parameter key in path: None when the query has no
\* such key, else the unquoted value of its first occurrence.
QueryParam(path, key) ==
    LET q == QueryOf(path)
        amps == Positions(q, "&")
        starts == {1} \cup {k + 1 : k \in amps}
        EndOf(b) == LET later == {k \in amps : k >= b}
                    IN  IF later = {} THEN Len(q) ELSE MinOf(later) - 1
        KeyEnd(b) == LET eqs == {k \in b..EndOf(b) : Ch(q, k) = "="}
                     IN  IF eqs = {} THEN EndOf(b) ELSE MinOf(eqs) - 1
        hits == {b \in starts : b <= Len(q) /\ unquote_plus(SubSeq(q, b, KeyEnd(b))) = key}
    IN  IF hits = {} THEN None
        ELSE LET b == MinOf(hits)
             IN  Some(unquote_plus(SubSeq(q, KeyEnd(b) + 2, EndOf(b))))

IsDigits(s) == \A k \in 1..Len(s) : Ch(s, k) \in {Digit(d) : d \in 0..9}

DigitVal(c) == CHOOSE d \in 0..9 : Digit(d) = c

RECURSIVE DecimalValue(_)
DecimalValue(s) ==
    IF Len(s) = 0 THEN 0
    ELSE 10 * DecimalValue(SubSeq(s, 1, Len(s) - 1)) + DigitVal(Ch(s, Len(s)))

\* s is the decimal numeral of the natural number n: digits only, no
\* leading zero, value n.
IsDecimalOf(s, n) ==
    /\ Len(s) >= 1
    /\ IsDigits(s)
    /\ (Len(s) > 1 => Ch(s, 1) # "0")
    /\ DecimalValue(s) = n

XTools ==
    {"x_get_user", "x_get_user_by_username", "x_get_users", "x_get_tweet",
     "x_get_tweets", "x_get_user_tweets", "x_get_user_mentions", "x_search_recent",
     "x_count_recent", "x_get_followers", "x_get_following", "x_get_list",
     "x_get_list_tweets", "x_get_user_lists"}

Started(i) == pc[i] # "idle"

-----------------------------------------------------------------------------
(* Claims checked under Spec: concurrent invocations.                      *)

\* An invocation the tool rejects for its batch size, by its arguments.
OverCap(i) ==
    \/ tool[i] = "x_get_users" /\ Len(Val(args[i]).user_ids) > 100
    \/ tool[i] = "x_get_tweets" /\ Len(Val(args[i]).tweet_ids) > 100

\* C4, at every state: an X tool invocation has called ctx.dispatch exactly
\* once from its first step on, or not at all when its identifier list is
\* over the cap.
C4_DispatchCount ==
    \A i \in Calls :
        (Started(i) /\ tool[i] \in XTools) =>
            ndispatch[i] = IF OverCap(i) THEN 0 ELSE 1

\* C4, at every step: the step that delivers a response, failed or not,
\* ends the invocation with its result and makes no further dispatch call.
C4_ResponseEnds ==
    \A i \in Calls :
        (got[i] = None /\ got'[i] # None) =>
            /\ pc'[i] = "done"
            /\ result'[i] # None
            /\ ndispatch'[i] = ndispatch[i]
            /\ sent'[i] = sent[i]

\* C4: every invocation of an X tool calls the dispatch exactly once, or
\* zero times when rejected for its batch size; a response, also a failed
\* one, is followed by the return and never by a second dispatch.
C4_DispatchedOnce == [](C4_DispatchCount) /\ [][C4_ResponseEnds]_vars

\* C4's case: an invocation that got a failed response has returned after
\* one dispatch call while an over-cap invocation has returned after none.
C4_Witness ==
    \E i, j \in Calls :
        /\ pc[i] = "done" /\ got[i] # None /\ ~Val(got[i]).success /\ ndispatch[i] = 1
        /\ pc[j] = "done" /\ tool[j] = "x_get_users" /\ OverCap(j) /\ ndispatch[j] = 0

\* C5: every request handed to the dispatch layer is a GET dispatched to
\* the connection named "x", the one x_api declares.
C5_ReadOnly ==
    \A i \in Calls :
        sent[i] # None =>
            /\ Val(sent[i]).request.method = "GET"
            /\ Val(sent[i]).conn = "x"
            /\ Val(sent[i]).conn = x_api.name

\* C5's case: two requests of different tools are in flight.
C5_Witness ==
    /\ pc[1] = "await" /\ tool[1] = "x_get_list" /\ sent[1] # None
    /\ pc[2] = "await" /\ tool[2] = "x_search_recent" /\ sent[2] # None

\* The request each call of Spec dispatches when it runs alone: the paths
\* x.py hands to ctx.dispatch for these arguments.
AloneRequests ==
    {<<"x_get_user", [user_id |-> "12"],
       "/users/12?user.fields=description%2Cpublic_metrics%2Ccreated_at">>,
     <<"x_get_user_by_username", [username |-> "nasa"],
       "/users/by/username/nasa?user.fields=description%2Cpublic_metrics%2Ccreated_at">>,
     <<"x_get_users", [user_ids |-> <<"42", "7 8">>],
       "/users?ids=42%2C7+8&user.fields=description%2Cpublic_metrics%2Ccreated_at">>,
     <<"x_get_tweet", [tweet_id |-> "20"],
       "/tweets/20?tweet.fields=author_id%2Ccreated_at%2Cpublic_metrics%2Centities&expansions=author_id&user.fields=username%2Cname">>,
     <<"x_get_tweets", [tweet_ids |-> <<"42", "7 8">>],
       "/tweets?ids=42%2C7+8&tweet.fields=author_id%2Ccreated_at%2Cpublic_metrics%2Centities&expansions=author_id&user.fields=username%2Cname">>,
     <<"x_get_user_tweets", [user_id |-> "12", max_results |-> Some(500)],
       "/users/12/tweets?max_results=100&tweet.fields=created_at%2Cpublic_metrics%2Centities">>,
     <<"x_get_user_mentions", [user_id |-> "12", max_results |-> Some(500)],
       "/users/12/mentions?max_results=100&tweet.fields=author_id%2Ccreated_at%2Cpublic_metrics&expansions=author_id&user.fields=username%2Cname">>,
     <<"x_search_recent", [query |-> "from:nasa has:links", max_results |-> Some(500)],
       "/tweets/search/recent?query=from%3Anasa+has%3Alinks&max_results=100&tweet.fields=author_id%2Ccreated_at%2Cpublic_metrics%2Centities&expansions=author_id&user.fields=username%2Cname">>,
     <<"x_count_recent", [query |-> "#tla+"],
       "/tweets/counts/recent?query=%23tla%2B">>,
     <<"x_get_followers", [user_id |-> "12", max_results |-> Some(500)],
       "/users/12/followers?max_results=500&user.fields=description%2Cpublic_metrics%2Ccreated_at">>,
     <<"x_get_following", [user_id |-> "12", max_results |-> Some(500)],
       "/users/12/following?max_results=500&user.fields=description%2Cpublic_metrics%2Ccreated_at">>,
     <<"x_get_list", [list_id |-> "7"],
       "/lists/7?list.fields=description%2Cfollower_count%2Cmember_count%2Cowner_id%2Ccreated_at">>,
     <<"x_get_list_tweets", [list_id |-> "84839422", max_results |-> Some(500)],
       "/lists/84839422/tweets?max_results=100&tweet.fields=author_id%2Ccreated_at%2Cpublic_metrics&expansions=author_id&user.fields=username%2Cname">>,
     <<"x_get_user_lists", [user_id |-> "12", max_results |-> Some(500)],
       "/users/12/owned_lists?max_results=100&list.fields=description%2Cfollower_count%2Cmember_count%2Ccreated_at">>}

\* The result an X tool invocation returns when it runs alone and the
\* dispatch answers r.
AloneResult(r) ==
    IF r.success
    THEN [success |-> TRUE, data |-> Val(r.response).body, error |-> None]
    ELSE [success |-> FALSE, data |-> None,
          error |-> IF r.error = None THEN Some("Request failed")
                    ELSE Some(Val(r.error).message)]

\* Everything the model holds of invocation i.
Slot(i) == <<pc[i], tool[i], args[i], sent[i], got[i], result[i], ndispatch[i]>>

\* C6, at every state: whatever else is in progress, the request of an
\* invocation is the one its tool and arguments produce alone, and its
\* result is the one its own response produces alone.
C6_AsAlone ==
    \A i \in Calls :
        /\ sent[i] # None =>
              <<tool[i], Val(args[i]), Val(sent[i]).request.path>> \in AloneRequests
        /\ (pc[i] = "done" /\ got[i] # None) =>
              result[i] = Some(AloneResult(Val(got[i])))

\* C6, at every step: a step of one invocation writes nothing of another.
C6_OwnSlotOnly ==
    \A i, j \in Calls : (i # j /\ Slot(i)' # Slot(i)) => Slot(j)' = Slot(j)

\* C6: invocations share no mutable state: under every interleaving each
\* invocation dispatches the request and returns the result it produces
\* when run alone, and no step of one changes another.
C6_Independent == [](C6_AsAlone) /\ [][C6_OwnSlotOnly]_vars

\* C6's case: an invocation has returned the result of its own, failed,
\* response while another with a different request is still awaiting its
\* own.
C6_Witness ==
    /\ pc[1] = "done" /\ tool[1] = "x_get_tweets" /\ got[1] # None
    /\ ~Val(got[1]).success
    /\ pc[2] = "await" /\ tool[2] = "x_get_followers"
    /\ Val(sent[1]).request.path # Val(sent[2]).request.path

AllTools ==
    <<"smoke_ping", "x_get_user", "x_get_user_by_username", "x_get_users",
      "x_get_tweet", "x_get_tweets", "x_get_user_tweets", "x_get_user_mentions",
      "x_search_recent", "x_count_recent", "x_get_followers", "x_get_following",
      "x_get_list", "x_get_list_tweets", "x_get_user_lists">>

\* C7, at every state: serving has begun only with the 15 tools collected,
\* and on port 8080.
C7_CollectedWhenServing ==
    (mainpc = "serving" \/ port # None) =>
        /\ registered = AllTools
        /\ Cardinality(Range(registered)) = 15
        /\ port = Some(8080)

\* C7, at every step: once serving, the registered tools do not change,
\* and serving goes on.
C7_FixedWhenServing ==
    mainpc = "serving" => (registered' = registered /\ mainpc' = "serving")

\* C7: main registers smoke_ping and the 14 X tools before it serves on
\* port 8080, and the registered tools do not change after that.
C7_RegisterThenServe == [](C7_CollectedWhenServing) /\ [][C7_FixedWhenServing]_vars

\* C7's case: the server serves and a tool registered last is being called.
C7_Witness ==
    /\ mainpc = "serving" /\ port = Some(8080) /\ Len(registered) = 15
    /\ \E i \in Calls : pc[i] = "await" /\ tool[i] = "x_get_user_lists"

\* C8: smoke_ping returns at once, ok = true and its message the argument
\* ("pong" when omitted), without a dispatch call or a request, whether or
\* not the dispatch is available.
C8_SmokePing ==
    \A i \in Calls :
        (Started(i) /\ tool[i] = "smoke_ping") =>
            /\ pc[i] = "done"
            /\ ndispatch[i] = 0
            /\ sent[i] = None
            /\ got[i] = None
            /\ result[i] = Some([ok |-> TRUE,
                                 message |-> IF Val(args[i]).message = None THEN "pong"
                                             ELSE Val(Val(args[i]).message)])

\* C8's case: with the dispatch unavailable, one smoke_ping has returned
\* its given message and another the default.
C8_Witness ==
    /\ ~available
    /\ tool[1] = "smoke_ping" /\ Val(args[1]).message = Some("hi")
    /\ Val(result[1]).message = "hi"
    /\ tool[2] = "smoke_ping" /\ Val(args[2]).message = None
    /\ Val(result[2]).message = "pong"

-----------------------------------------------------------------------------
(* Claims checked under SpecWide: the arguments range over the bounds.     *)

\* The range of max_results each tool documents.
Lo(t) == IF t \in {"x_get_user_tweets", "x_get_user_mentions", "x_search_recent"} THEN 10 ELSE 1

Hi(t) == IF t \in {"x_get_followers", "x_get_following"} THEN 1000 ELSE 100

MaxResultsTools ==
    {"x_get_user_tweets", "x_get_user_mentions", "x_search_recent", "x_get_followers",
     "x_get_following", "x_get_list_tweets", "x_get_user_lists"}

\* C1: for every tool that takes max_results and every integer v passed,
\* the max_results query parameter of the dispatched request is the decimal
\* numeral of v raised to the tool's minimum, capped at its maximum, or
\* unchanged inside the range.
C1_Clamped ==
    \A i \in Calls :
        (Started(i) /\ tool[i] \in MaxResultsTools /\ Val(args[i]).max_results # None) =>
            LET v == Val(Val(args[i]).max_results)
                lo == Lo(tool[i])
                hi == Hi(tool[i])
                want == IF v < lo THEN lo ELSE IF v > hi THEN hi ELSE v
            IN  /\ sent[i] # None
                /\ LET p == QueryParam(Val(sent[i]).request.path, "max_results")
                   IN  p # None /\ IsDecimalOf(Val(p), want)

\* C1's case: x_get_followers called with max_results above 1000 has
\* dispatched max_results=1000.
C1_Witness ==
    /\ tool[1] = "x_get_followers" /\ sent[1] # None
    /\ Val(args[1]).max_results # None
    /\ Val(Val(args[1]).max_results) > 1000
    /\ QueryParam(Val(sent[1]).request.path, "max_results") = Some("1000")

\* The identifier list of a multi-get invocation.
IdsOf(i) ==
    IF tool[i] = "x_get_users" THEN Val(args[i]).user_ids ELSE Val(args[i]).tweet_ids

MultiGet == {"x_get_users", "x_get_tweets"}

\* C2: a multi-get call with more than 100 identifiers returns a failure
\* result, data absent, whose error is the tool's fixed string whatever the
\* identifiers.
C2_OverCapRejected ==
    \A i \in Calls :
        (Started(i) /\ tool[i] \in MultiGet /\ Len(IdsOf(i)) > 100) =>
            /\ pc[i] = "done"
            /\ result[i] =
                  Some([success |-> FALSE, data |-> None,
                        error |-> Some(IF tool[i] = "x_get_users"
                                       THEN "Maximum 100 user IDs allowed"
                                       ELSE "Maximum 100 tweet IDs allowed")])

\* C2's case: x_get_tweets with 101 identifiers has returned its failure.
C2_Witness ==
    /\ tool[1] = "x_get_tweets" /\ Len(Val(args[1]).tweet_ids) = 101
    /\ pc[1] = "done" /\ ~Val(result[1]).success

\* C3: the result of an invocation that got a dispatch response forwards
\* it: the same success flag, the response body as data on success, the
\* error's message as error on a failure that carries an error.
C3_Forwards ==
    \A i \in Calls :
        got[i] # None =>
            LET r == Val(got[i])
            IN  /\ result[i] # None
                /\ Val(result[i]).success = r.success
                /\ r.success => Val(result[i]).data = Val(r.response).body
                /\ (~r.success /\ r.error # None) =>
                      Val(result[i]).error = Some(Val(r.error).message)

\* C3's case: a failed response carrying the message "Unauthorized" has
\* been forwarded.
C3_Witness ==
    /\ got[1] # None /\ ~Val(got[1]).success
    /\ Val(got[1]).error = Some([message |-> "Unauthorized"])
    /\ Val(result[1]).error = Some("Unauthorized")

\* The sequence of Len(ids[1]) + 1 + ... + Len(ids[j]) + 1 for j = 1..k:
\* where the text after the j-th identifier and its comma starts, less one.
RECURSIVE Offsets(_, _)
Offsets(ids, k) ==
    IF k = 0 THEN <<>>
    ELSE LET before == Offsets(ids, k - 1)
         IN  Append(before, (IF k = 1 THEN 0 ELSE before[k - 1]) + Len(ids[k]) + 1)

\* v is the identifiers in the order given with a comma between neighbours.
IsCommaJoined(v, ids) ==
    LET n == Len(ids)
        off == Offsets(ids, n)
        StartOf(k) == IF k = 1 THEN 1 ELSE off[k - 1] + 1
    IN  /\ Len(v) = IF n = 0 THEN 0 ELSE off[n] - 1
        /\ \A k \in 1..n :
              /\ SubSeq(v, StartOf(k), off[k] - 1) = ids[k]
              /\ k < n => Ch(v, off[k]) = ","

\* C9: the cap is inclusive: a multi-get call with 0 to 100 identifiers is
\* not rejected and dispatches one request whose ids parameter is the
\* identifiers joined by commas in the order given; it is rejected exactly
\* when there are more than 100.
C9_CapInclusive ==
    \A i \in Calls :
        (Started(i) /\ tool[i] \in MultiGet) =>
            IF Len(IdsOf(i)) <= 100
            THEN /\ sent[i] # None
                 /\ ndispatch[i] = 1
                 /\ LET p == QueryParam(Val(sent[i]).request.path, "ids")
                    IN  p # None /\ IsCommaJoined(Val(p), IdsOf(i))
            ELSE /\ sent[i] = None
                 /\ ndispatch[i] = 0
                 /\ got[i] = None
                 /\ pc[i] = "done"
                 /\ ~Val(result[i]).success

\* C9's case: x_get_users with exactly 100 identifiers has dispatched them.
C9_Witness ==
    /\ tool[1] = "x_get_users" /\ Len(Val(args[1]).user_ids) = 100
    /\ sent[1] # None
    /\ QueryParam(Val(sent[1]).request.path, "ids") = Some(join(",", Val(args[1]).user_ids))

\* C10: every result of an X tool is well formed: success with no error,
\* or failure with no data and an error string; a failed response that
\* carries no error object yields the error "Request failed".
C10_WellFormed ==
    \A i \in Calls :
        (result[i] # None /\ tool[i] \in XTools) =>
            LET x == Val(result[i])
            IN  /\ \/ x.success /\ x.error = None
                   \/ ~x.success /\ x.data = None /\ x.error # None
                /\ (got[i] # None /\ ~Val(got[i]).success /\ Val(got[i]).error = None) =>
                      x.error = Some("Request failed")

\* C10's case: a failed response without an error object has been turned
\* into a result.
C10_Witness ==
    /\ tool[1] \in XTools /\ got[1] # None
    /\ ~Val(got[1]).success /\ Val(got[1]).error = None
    /\ Val(result[1]).error = Some("Request failed")

=============================================================================
